---------------------------- MODULE Spec2Model ----------------------------
(***************************************************************************)
(* Rock-Paper-Scissors game of src/script.js: the round / game state       *)
(* machine, the round countdown (setInterval), the deferred resolution     *)
(* callbacks (setTimeout) and the event handlers that drive them.          *)
(*                                                                         *)
(* The browser runs one callback at a time, so every handler, every        *)
(* interval tick and every timeout callback is one atomic action.  The     *)
(* handlers carry no guard on the visible screen, so every handler may     *)
(* run in every state.                                                     *)
(***************************************************************************)
EXTENDS Integers, Sequences, FiniteSets

(***************************************************************************)
(* Bounds of the model.                                                    *)
(***************************************************************************)
\* rounds started per game
MaxRounds == 2
\* browser timers alive at one time: countdown intervals that nothing cleared
\* and deferred processRound callbacks that have not run yet
MaxTimers == 2
\* ticks delivered below zero by an interval that nothing stops
MaxOverrun == 1

(***************************************************************************)
(* Program constants.                                                      *)
(***************************************************************************)
DefaultTimerDuration == 10
DefaultWinningScore == 5
WinPoints == 500
TiePoints == 100
LosePoints == 0

CHOICES == {"rock", "paper", "scissors"}
\* JavaScript null (playerChoice, aiChoice)
NULL == "null"
\* gameState.timerInterval = null; interval ids are positive
NoTimer == 0

\* data-value of the option buttons of the settings modal, as parseInt reads
\* them: the handlers accept whatever number the button carries
TimerOptions == {1}
ScoreOptions == {0, 1}
IntervalIds == 1..MaxTimers

VARIABLES
    timerDuration,   \* gameSettings.timerDuration
    winningScore,    \* gameSettings.winningScore
    playerScore,     \* gameState.playerScore
    aiScore,         \* gameState.aiScore
    totalPoints,     \* gameState.totalPoints
    currentTimer,    \* gameState.currentTimer
    timerInterval,   \* gameState.timerInterval: NoTimer or an interval id
    playerChoice,    \* gameState.playerChoice
    aiChoice,        \* gameState.aiChoice
    isRoundActive,   \* gameState.isRoundActive
    screen,          \* the screen that carries the 'active' class
    resultTitle,     \* class of the result title set by showResult
    winner,          \* which final score carries the 'winner' class
    loading,         \* runLoadingAnimation has not shown the start screen yet
    live,            \* ids of the intervals setInterval started and nothing cleared
    pending,         \* queue of deferred processRound callbacks (setTimeout 500),
                     \* each [blocked, madeIn]: the intervals that cannot tick
                     \* again before the callback runs (500 ms < 1000 ms), and
                     \* (history) whether it was scheduled in the current round,
                     \* an earlier round of this game, or an earlier game
    \* history of the run, written by no handler's code
    rounds,          \* rounds started in this game
    ties,            \* tied resolutions in this game
    scheduledBy,     \* what scheduled a resolution of the current round, in
                     \* order: "click" (accepted choice) or "expire" (countdown)
    scoreChanged     \* gameSettings.winningScore was given another value
                     \* since the game was started

vars == <<timerDuration, winningScore, playerScore, aiScore, totalPoints,
          currentTimer, timerInterval, playerChoice, aiChoice, isRoundActive,
          screen, resultTitle, winner, loading, live, pending, rounds, ties,
          scheduledBy, scoreChanged>>

\* the whole state as one record, threaded through the calls of a handler
Cur == [timerDuration |-> timerDuration, winningScore |-> winningScore,
        playerScore |-> playerScore, aiScore |-> aiScore,
        totalPoints |-> totalPoints, currentTimer |-> currentTimer,
        timerInterval |-> timerInterval, playerChoice |-> playerChoice,
        aiChoice |-> aiChoice, isRoundActive |-> isRoundActive,
        screen |-> screen, resultTitle |-> resultTitle, winner |-> winner,
        loading |-> loading,
        live |-> live, pending |-> pending,
        rounds |-> rounds, ties |-> ties, scheduledBy |-> scheduledBy,
        scoreChanged |-> scoreChanged]

\* the state after a handler: every variable from the record it returns
\* (r is that record, computed once)
Commit(s) ==
    \E r \in {s} :
        /\ timerDuration' = r.timerDuration
        /\ winningScore' = r.winningScore
        /\ playerScore' = r.playerScore
        /\ aiScore' = r.aiScore
        /\ totalPoints' = r.totalPoints
        /\ currentTimer' = r.currentTimer
        /\ timerInterval' = r.timerInterval
        /\ playerChoice' = r.playerChoice
        /\ aiChoice' = r.aiChoice
        /\ isRoundActive' = r.isRoundActive
        /\ screen' = r.screen
        /\ resultTitle' = r.resultTitle
        /\ winner' = r.winner
        /\ loading' = r.loading
        /\ live' = r.live
        /\ pending' = r.pending
        /\ rounds' = r.rounds
        /\ ties' = r.ties
        /\ scheduledBy' = r.scheduledBy
        /\ scoreChanged' = r.scoreChanged

(***************************************************************************)
(* Pure functions.                                                         *)
(***************************************************************************)
\* determineWinner with one pair of the cycle the wrong way round
determineWinner_PaperLosesToRock(p, a) ==
    IF p = a THEN "tie"
    ELSE IF \/ (p = "rock" /\ a = "scissors")
            \/ (p = "rock" /\ a = "paper")
            \/ (p = "scissors" /\ a = "paper")
         THEN "win"
         ELSE "lose"

determineWinner(p, a) ==
    IF p = a THEN "tie"
    ELSE IF \/ (p = "rock" /\ a = "scissors")
            \/ (p = "paper" /\ a = "rock")
            \/ (p = "scissors" /\ a = "paper")
         THEN "win"
         ELSE "lose"

\* calculatePoints with the tie case fallen through to the default
calculatePoints_TieUnpaid(result) ==
    CASE result = "win" -> WinPoints
      [] result = "lose" -> LosePoints
      [] OTHER -> 0

calculatePoints(result) ==
    CASE result = "win" -> WinPoints
      [] result = "tie" -> TiePoints
      [] result = "lose" -> LosePoints
      [] OTHER -> 0

(***************************************************************************)
(* Browser timers.                                                         *)
(***************************************************************************)
\* clearInterval(id): the interval ticks no more
clearInterval(s, id) ==
    [s EXCEPT !.live = @ \ {id},
              !.pending = [k \in DOMAIN @ |-> [@[k] EXCEPT !.blocked = @ \ {id}]]]

\* setInterval(cb, 1000): a new interval; its first tick is a full second
\* away, later than every callback already waiting
setInterval(s) ==
    LET id == CHOOSE i \in IntervalIds \ s.live :
                  \A j \in IntervalIds \ s.live : i <= j
    IN  [s EXCEPT !.live = @ \cup {id},
                  !.pending = [k \in DOMAIN @ |->
                                  [@[k] EXCEPT !.blocked = @ \cup {id}]],
                  !.timerInterval = id]

\* setTimeout(() => processRound(), 500), called by path ("click" or "expire");
\* blocked: the intervals whose next tick is later than the callback
setTimeout(s, blocked, path) ==
    [s EXCEPT !.pending = Append(@, [blocked |-> blocked, madeIn |-> "round"]),
              !.scheduledBy = Append(@, path)]

(***************************************************************************)
(* Game logic.                                                             *)
(***************************************************************************)
showScreen(s, name) == [s EXCEPT !.screen = name]

resetGameState(s) ==
    [s EXCEPT !.playerScore = 0, !.aiScore = 0, !.totalPoints = 0,
              !.currentTimer = s.timerDuration, !.timerInterval = NoTimer,
              !.playerChoice = NULL, !.aiChoice = NULL,
              !.isRoundActive = FALSE,
              !.rounds = 0, !.ties = 0, !.scoreChanged = FALSE,
              !.pending = [k \in DOMAIN @ |-> [@[k] EXCEPT !.madeIn = "earlierGame"]]]

resetRound(s) ==
    [s EXCEPT !.playerChoice = NULL, !.aiChoice = NULL,
              !.currentTimer = s.timerDuration, !.isRoundActive = FALSE]

stopTimer(s) ==
    IF s.timerInterval # NoTimer
    THEN [clearInterval(s, s.timerInterval) EXCEPT !.timerInterval = NoTimer]
    ELSE s

startTimer(s) ==
    setInterval(IF s.timerInterval # NoTimer
                THEN clearInterval(s, s.timerInterval)
                ELSE s)

startRound(s) ==
    startTimer([s EXCEPT !.isRoundActive = TRUE,
                         !.currentTimer = s.timerDuration,
                         !.rounds = @ + 1, !.scheduledBy = <<>>,
                         !.pending = [k \in DOMAIN @ |->
                             [@[k] EXCEPT !.madeIn = IF @ = "round"
                                                     THEN "earlierRound" ELSE @]]])

\* showResult: the title is set first; building the message calls toUpperCase
\* on playerChoice, which throws on null before showScreen('result') is reached
showResult(s, result) ==
    LET t == [s EXCEPT !.resultTitle = result]
    IN  IF s.playerChoice = NULL THEN t ELSE showScreen(t, "result")

\* processRound with the opponent's draw ai
processRound(s, ai) ==
    LET result == determineWinner(s.playerChoice, ai)
        s1 == [s EXCEPT !.aiChoice = ai,
                        !.playerScore = IF result = "win" THEN @ + 1 ELSE @,
                        !.aiScore = IF result = "lose" THEN @ + 1 ELSE @,
                        !.totalPoints = @ + calculatePoints(result),
                        !.ties = IF result = "tie" THEN @ + 1 ELSE @]
    IN  showResult(s1, result)

showGameOver(s) ==
    showScreen([s EXCEPT !.winner = IF s.playerScore > s.aiScore
                                    THEN "player" ELSE "ai"],
               "gameOver")

(***************************************************************************)
(* Event handlers and callbacks.                                           *)
(***************************************************************************)
\* the objects as the script constructs them, at DOMContentLoaded: the
\* listeners are registered and the loading animation has just been started
Init ==
    /\ timerDuration = DefaultTimerDuration
    /\ winningScore = DefaultWinningScore
    /\ playerScore = 0
    /\ aiScore = 0
    /\ totalPoints = 0
    /\ currentTimer = 10
    /\ timerInterval = NoTimer
    /\ playerChoice = NULL
    /\ aiChoice = NULL
    /\ isRoundActive = FALSE
    /\ screen = "loading"
    /\ resultTitle = "none"
    /\ winner = "none"
    /\ loading = TRUE
    /\ live = {}
    /\ pending = <<>>
    /\ rounds = 0
    /\ ties = 0
    /\ scheduledBy = <<>>
    /\ scoreChanged = FALSE

\* timers alive when the intervals ids are: those intervals and the callbacks
Timers(ids) == Cardinality(ids) + Len(pending)

\* Start Game and Play Again
handleStartGame ==
    /\ Timers(live) < MaxTimers
    /\ Commit(startRound(showScreen(resetGameState(Cur), "game")))

\* handleChoiceClick without the test of isRoundActive
handleChoiceClick_NoActiveTest(choice) ==
    IF playerChoice # NULL
    THEN Commit(Cur)
    ELSE /\ Timers(live \ {timerInterval}) < MaxTimers
         /\ Commit(setTimeout(stopTimer([Cur EXCEPT !.playerChoice = choice]),
                              {}, "click"))

\* handleChoiceClick calling processRound itself, without the setTimeout
handleChoiceClick_ResolvesAtOnce(choice) ==
    IF ~isRoundActive \/ playerChoice # NULL
    THEN Commit(Cur)
    ELSE \E a \in CHOICES :
            Commit(processRound(stopTimer([Cur EXCEPT !.playerChoice = choice]), a))

handleChoiceClick(choice) ==
    IF ~isRoundActive \/ playerChoice # NULL
    THEN Commit(Cur)
    ELSE /\ Timers(live \ {timerInterval}) < MaxTimers
         /\ Commit(setTimeout(stopTimer([Cur EXCEPT !.playerChoice = choice]),
                              {}, "click"))

handleNextRound ==
    IF playerScore >= winningScore \/ aiScore >= winningScore
    THEN Commit(showGameOver(Cur))
    ELSE /\ rounds < MaxRounds
         /\ Timers(live \ {timerInterval}) < MaxTimers
         /\ Commit(startRound(showScreen(resetRound(Cur), "game")))

\* Exit
handleExit ==
    /\ screen' = showScreen(Cur, "start").screen
    /\ UNCHANGED <<timerDuration, winningScore, playerScore, aiScore,
                   totalPoints, currentTimer, timerInterval, playerChoice,
                   aiChoice, isRoundActive, resultTitle, winner, loading,
                   live, pending, rounds, ties, scheduledBy, scoreChanged>>

handleTimerOptionClick(value) ==
    /\ value \in TimerOptions
    /\ Commit([Cur EXCEPT !.timerDuration = value])

handleScoreOptionClick(value) ==
    /\ value \in ScoreOptions
    /\ Commit([Cur EXCEPT !.winningScore = value,
                          !.scoreChanged = @ \/ (rounds > 0 /\ value # winningScore)])

\* one run of the callback startTimer gave to setInterval, for interval id;
\* random is the draw of getRandomChoice should the countdown run out
timerTick(id, random) ==
    /\ id \in live
    /\ \A k \in DOMAIN pending : id \notin pending[k].blocked
    /\ currentTimer > -MaxOverrun
    /\ LET s1 == [Cur EXCEPT !.currentTimer = @ - 1,
                             !.pending = [k \in DOMAIN @ |->
                                 [@[k] EXCEPT !.blocked = @ \cup {id}]]]
       IN  IF s1.currentTimer <= 0
           THEN LET s2 == stopTimer(s1)
                IN  IF s2.playerChoice = NULL
                    THEN /\ Timers(live \ {timerInterval}) < MaxTimers
                         /\ Commit(setTimeout([s2 EXCEPT !.playerChoice = random],
                                              {id}, "expire"))
                    ELSE Commit(s2)
           ELSE Commit(s1)

\* runLoadingAnimation: the progress interval (30 ms, 100 steps, progress bar
\* only) has cleared itself and the callback it deferred by 500 ms runs.  The
\* game's handlers are registered all the while, and nothing ties the time
\* the animation takes to the timers of the game.
loadingComplete ==
    /\ loading
    /\ Commit(showScreen([Cur EXCEPT !.loading = FALSE], "start"))

\* the oldest deferred callback runs processRound; ai is the opponent's draw
timeoutFires(ai) ==
    /\ pending # <<>>
    /\ Commit(processRound([Cur EXCEPT !.pending = Tail(@)], ai))

Next ==
    \/ handleStartGame
    \/ \E c \in CHOICES : handleChoiceClick(c)
    \/ handleNextRound
    \/ handleExit
    \/ loadingComplete
    \/ \E v \in TimerOptions : handleTimerOptionClick(v)
    \/ \E v \in ScoreOptions : handleScoreOptionClick(v)
    \/ \E id \in IntervalIds, r \in CHOICES : timerTick(id, r)
    \/ \E a \in CHOICES : timeoutFires(a)

Spec == Init /\ [][Next]_vars

\* the browser runs every interval tick that is due and every deferred
\* callback that is waiting
SpecFair ==
    /\ Init
    /\ [][Next]_vars
    /\ WF_vars(\E id \in IntervalIds, r \in CHOICES : timerTick(id, r))
    /\ WF_vars(\E a \in CHOICES : timeoutFires(a))

(***************************************************************************)
(* Properties.                                                             *)
(***************************************************************************)
\* the fields of gameState, and the timers behind them
gameVars == <<playerScore, aiScore, totalPoints, currentTimer, timerInterval,
              playerChoice, aiChoice, isRoundActive, live, pending>>

\* callbacks waiting that were scheduled in the current round
OwnPending == {k \in DOMAIN pending : pending[k].madeIn = "round"}

\* a deferred callback ran processRound in this step: nothing else takes a
\* callback off the queue
Resolved == Len(pending') < Len(pending)

\* processRound has run in the current round: it draws gameState.aiChoice
\* (592), and only resetRound (265) and resetGameState (253) clear it, each
\* called right before startRound
RoundHasResult == aiChoice # NULL

\* startRound ran in this step, called by startGame or by advance: it counts
\* a round, and the interval it starts is another one unless the tracked one
\* was cleared for it
RoundStarts == rounds' # rounds \/ timerInterval' \notin {NoTimer, timerInterval}

\* C1 (the claim as stated): every round is resolved exactly once.  No
\* processRound runs in a round that another processRound has resolved
\* already; no round is given up for the next one before a processRound has
\* resolved it; and a resolution is scheduled for a round by the accepted
\* click or by the expiry, never by both.
C1_ResolvedExactlyOnce ==
    [][/\ Resolved => ~RoundHasResult
       /\ (rounds > 0 /\ RoundStarts) => RoundHasResult
       /\ scheduledBy' \in {<<>>, <<"click">>, <<"expire">>}
      ]_vars

\* C2: a choice click that arrives when no round is active or playerChoice
\* is already set changes nothing: choices, scores, totalPoints, countdown,
\* timer handle, intervals and waiting callbacks are all as before.
C2_IgnoredClickNoOp ==
    [][\A c \in CHOICES :
          ((~isRoundActive \/ playerChoice # NULL) /\ handleChoiceClick(c))
              => UNCHANGED gameVars]_vars

\* a second click in the same round arrives here: the first one was accepted
\* and its resolution is still waiting
C2_Witness ==
    /\ isRoundActive
    /\ scheduledBy = <<"click">>
    /\ playerChoice # NULL
    /\ pending # <<>>

\* rock > scissors > paper > rock
Beats(p, o) ==
    <<p, o>> \in {<<"rock", "scissors">>, <<"scissors", "paper">>,
                  <<"paper", "rock">>}

\* C3: for all choices p, o: determineWinner(p, o) is 'tie' iff p = o, else
\* 'win' or 'lose', 'win' exactly when p beats o in the cycle, and 'win' for
\* (p, o) iff 'lose' for (o, p); and the result processRound shows for the
\* choices of a round (the player's, and the opponent's it has just drawn)
\* is that outcome.
C3_DetermineWinner ==
    /\ \A p \in CHOICES, o \in CHOICES :
          /\ determineWinner(p, o) = "tie" <=> p = o
          /\ p # o => determineWinner(p, o) \in {"win", "lose"}
          /\ determineWinner(p, o) = "win" <=> Beats(p, o)
          /\ determineWinner(p, o) = "win" <=> determineWinner(o, p) = "lose"
    /\ [][(Resolved /\ playerChoice \in CHOICES)
            => /\ resultTitle' = "tie" <=> playerChoice = aiChoice'
               /\ resultTitle' = "win" <=> Beats(playerChoice, aiChoice')
               /\ resultTitle' = "lose" <=> Beats(aiChoice', playerChoice)]_vars

\* rock against scissors was resolved as a win
C3_Witness ==
    /\ playerChoice = "rock"
    /\ aiChoice = "scissors"
    /\ resultTitle = "win"
    /\ playerScore = 1

\* C4 (the claim as stated): a resolution changes the scores by its outcome
\* only (win: player +1, lose: opponent +1, tie: neither); at most one score
\* increases per round, by exactly 1: once a resolution of the round has
\* raised a score (the round has a result, a win or a loss), no later
\* processRound of that round raises one; and no step but startGame lowers a
\* score.
C4_OneScorePerRound ==
    [][/\ Resolved
            => /\ resultTitle' = "win"
                    => playerScore' = playerScore + 1 /\ aiScore' = aiScore
               /\ resultTitle' = "lose"
                    => aiScore' = aiScore + 1 /\ playerScore' = playerScore
               /\ resultTitle' = "tie"
                    => playerScore' = playerScore /\ aiScore' = aiScore
               /\ resultTitle' \in {"win", "lose", "tie"}
       /\ (Resolved /\ RoundHasResult /\ resultTitle \in {"win", "lose"})
            => playerScore' = playerScore /\ aiScore' = aiScore
       /\ ~Resolved => playerScore' <= playerScore /\ aiScore' <= aiScore
       /\ (playerScore' < playerScore \/ aiScore' < aiScore) => handleStartGame
      ]_vars

\* C5: totalPoints is 500 x playerScore + 100 x tied resolutions of the game;
\* a resolution adds 500 for a win, 100 for a tie, 0 for a loss; and no step
\* but startGame lowers totalPoints.
C5_TotalPoints ==
    /\ totalPoints = 500 * playerScore + 100 * ties
    /\ [][/\ totalPoints' = 500 * playerScore' + 100 * ties'
          /\ Resolved
               => totalPoints' - totalPoints =
                     (IF resultTitle' = "win" THEN 500
                      ELSE IF resultTitle' = "tie" THEN 100 ELSE 0)
          /\ totalPoints' < totalPoints => handleStartGame]_vars

\* a win and a tie in one game: 600 points
C5_Witness ==
    /\ playerScore = 1
    /\ ties = 1
    /\ totalPoints = 600

\* C6 (the claim as stated): advance shows game over and starts no round when
\* a score has reached winningScore, and starts a new round otherwise; and
\* while game over is shown no round is started, no round is resolved and no
\* score changes, until startGame.
C6_GameOverIsFinal ==
    [][/\ (handleNextRound
            /\ (playerScore >= winningScore \/ aiScore >= winningScore))
            => /\ screen' = "gameOver"
               /\ UNCHANGED gameVars
               /\ rounds' = rounds
       /\ (handleNextRound
            /\ ~(playerScore >= winningScore \/ aiScore >= winningScore))
            => /\ rounds' = rounds + 1
               /\ isRoundActive'
       /\ (screen = "gameOver" /\ ~handleStartGame)
            => /\ rounds' = rounds
               /\ ~Resolved
               /\ playerScore' = playerScore
               /\ aiScore' = aiScore]_vars

\* C7 (the claim as stated): startGame, in whatever state, leaves the scores
\* and totalPoints 0, both choices absent, the countdown at the configured
\* duration and a round active; and afterwards no callback scheduled in an
\* earlier game changes the scores of the new game.
C7_StartGameFresh ==
    [][/\ handleStartGame
            => /\ playerScore' = 0 /\ aiScore' = 0 /\ totalPoints' = 0
               /\ playerChoice' = NULL /\ aiChoice' = NULL
               /\ currentTimer' = timerDuration'
               /\ isRoundActive'
       /\ (Resolved /\ Head(pending).madeIn = "earlierGame")
            => playerScore' = playerScore /\ aiScore' = aiScore]_vars

\* C8 (the claim as stated): at most one countdown interval is live.
C8_OneInterval == Cardinality(live) <= 1

\* C9 (the claim as stated): in a round in which no choice is submitted the
\* countdown never goes below 0, and once it has reached 0 (the expiry) no
\* interval is left to tick.
C9_CountdownStopsAtZero ==
    scheduledBy # <<"click">>
        => /\ currentTimer >= 0
           /\ currentTimer = 0 => live = {}

\* C10 (the claim as stated): startGame with a non-positive timer duration or
\* winning score does not start the game: the game state is not reset, no
\* round becomes active and no timer is started.
C10_InvalidSettingsRejected ==
    [][((timerDuration <= 0 \/ winningScore <= 0) /\ handleStartGame)
          => UNCHANGED gameVars]_vars

\* the current round has been resolved: a resolution was scheduled for it and
\* its callback has run
RoundResolved == scheduledBy # <<>> /\ OwnPending = {}

\* C11 (the claim as stated): once a round has been started, isRoundActive is
\* true exactly while the current round is unresolved, and it is false while
\* the result or game over is shown.
C11_ActiveUntilResolved ==
    /\ rounds > 0 => (isRoundActive <=> ~RoundResolved)
    /\ screen \in {"result", "gameOver"} => ~isRoundActive

\* C12 (the claim as stated): advance called while the current round is
\* unresolved (active, or its resolution still waiting) changes nothing: the
\* choices, the countdown, the timers, the round and the screen are as before.
C12_EarlyAdvanceNoOp ==
    [][(rounds > 0 /\ ~RoundResolved /\ handleNextRound)
          => UNCHANGED <<gameVars, screen, rounds>>]_vars

\* C13 (the claim as stated): a round is started by advance only after the
\* round before it was resolved; game over is entered only from a resolved
\* round; and from game over play goes on (the game or the result screen is
\* shown again) only through startGame.
C13_EventOrder ==
    [][/\ (rounds > 0 /\ handleNextRound /\ rounds' = rounds + 1) => RoundResolved
       /\ (screen # "gameOver" /\ screen' = "gameOver") => RoundResolved
       /\ (screen = "gameOver" /\ screen' \in {"game", "result"})
            => handleStartGame
      ]_vars

\* C14 (the claim as stated): under fair firing of the interval ticks and of
\* the deferred callbacks, every started round is eventually resolved, with
\* or without a submission, and exactly once: a round without a result leads
\* to its result, no round is given up for the next one before it has its
\* result, and no processRound runs in a round that has one.
C14_EveryRoundResolvedOnce ==
    /\ (rounds > 0 /\ ~RoundHasResult) ~> RoundHasResult
    /\ [][/\ (rounds > 0 /\ RoundStarts) => RoundHasResult
          /\ Resolved => ~RoundHasResult]_vars

\* C15 (the claim as stated): an accepted submission resolves the round in
\* the same step: in no reachable state is the player's choice set and the
\* timer stopped while the round is unresolved (opponent's choice absent, or
\* the round's resolution still waiting).
C15_ImmediateResolution ==
    (playerChoice # NULL /\ timerInterval = NoTimer)
        => (aiChoice # NULL /\ OwnPending = {})

\* C15 (amended): an accepted submission stores the choice and stops the
\* timer in the same step and defers the resolution: it leaves one more
\* callback waiting, made in this round, and does not touch the opponent's
\* choice, the scores, totalPoints, the countdown or the screen.
C15_DeferredResolution ==
    [][\A c \in CHOICES :
          (isRoundActive /\ playerChoice = NULL /\ handleChoiceClick(c))
              => /\ playerChoice' = c
                 /\ timerInterval' = NoTimer
                 /\ timerInterval \notin live'
                 /\ Len(pending') = Len(pending) + 1
                 /\ pending'[Len(pending')].madeIn = "round"
                 /\ UNCHANGED <<aiChoice, playerScore, aiScore, totalPoints,
                                currentTimer, isRoundActive, screen,
                                resultTitle>>]_vars

\* between the submission and the resolution: the choice made after some
\* ticks, the timer stopped, the callback waiting, the round unresolved
C15_Witness ==
    /\ scheduledBy = <<"click">>
    /\ playerChoice \in CHOICES
    /\ timerInterval = NoTimer
    /\ currentTimer < timerDuration
    /\ OwnPending # {}
    /\ aiChoice = NULL
    /\ screen = "game"

\* C16 (the claim as stated): the step that accepts a choice stops the timer
\* and leaves the countdown as it is; and from then until the next round is
\* started no step changes the countdown and the expiry schedules nothing for
\* the round.
C16_NoTickAfterChoice ==
    [][/\ (scheduledBy = <<>> /\ scheduledBy' = <<"click">>)
            => /\ timerInterval' = NoTimer
               /\ timerInterval \notin live'
               /\ currentTimer' = currentTimer
       /\ scheduledBy = <<"click">>
            => /\ scheduledBy' \in {<<>>, <<"click">>}
               /\ scheduledBy' = <<"click">> => currentTimer' = currentTimer
      ]_vars

\* C17 (the claim as stated): whenever processRound resolves a round, the
\* player's choice it reads and the opponent's choice it draws are both
\* values of CHOICES: the outcome is never computed from a null choice.
C17_ChoicesPresent ==
    [][Resolved => (playerChoice \in CHOICES /\ aiChoice' \in CHOICES)]_vars

\* C18 (the claim as stated): a change of a setting made while a game is in
\* progress does not affect that game: the running countdown is as before,
\* and so are the duration advance would give the next round (the countdown
\* resetRound leaves) and the verdict of the winning-score test of advance.
C18_SettingsCaptured ==
    [][(/\ rounds > 0
        /\ screen \in {"game", "result"}
        /\ (timerDuration' # timerDuration \/ winningScore' # winningScore))
          => /\ currentTimer' = currentTimer
             /\ resetRound(Cur').currentTimer = resetRound(Cur).currentTimer
             /\ (playerScore' >= winningScore' \/ aiScore' >= winningScore')
                   <=> (playerScore >= winningScore \/ aiScore >= winningScore)
      ]_vars

\* C19 (the claim as stated): in a game whose winning score W >= 1 has not
\* been changed since the game was started, neither score passes W.
C19_ScoresWithinThreshold ==
    (rounds > 0 /\ ~scoreChanged /\ winningScore >= 1)
        => (playerScore <= winningScore /\ aiScore <= winningScore)

\* C20 (the claim as stated, for a winning score W >= 1 not changed since the
\* game was started): whenever game over is shown, exactly one score equals W
\* and the other is smaller, and the winner highlight marks the side at W.
C20_GameOverHasOneWinner ==
    (screen = "gameOver" /\ rounds > 0 /\ ~scoreChanged /\ winningScore >= 1)
        => /\ \/ (playerScore = winningScore /\ aiScore < winningScore)
              \/ (aiScore = winningScore /\ playerScore < winningScore)
           /\ winner = (IF playerScore = winningScore THEN "player" ELSE "ai")

\* C21 (the claim as stated): every live countdown interval is the one
\* gameState.timerInterval refers to, and while one is live a round is active
\* and playerChoice is absent; and when playerChoice is set or the countdown
\* is at 0, no countdown interval is live.
C21_HandleAgreesWithRound ==
    /\ \A id \in live :
          /\ timerInterval = id
          /\ isRoundActive
          /\ playerChoice = NULL
    /\ (playerChoice # NULL \/ currentTimer = 0) => live = {}

=============================================================================
